---- MODULE Spec2Model ----
(***************************************************************************)
(* Builder pattern example (src/src/Builder/index.js): Product1, Builder,  *)
(* ConcreteBuilder1 and Director, modelled as a heap of Product1 objects,  *)
(* builder objects that point into it, and one Director.                   *)
(***************************************************************************)
EXTENDS Integers, Sequences, FiniteSets, TLC

\* Number of operations the client performs in one run.
MaxOps == 6

\* The JavaScript value undefined (an unset field, a method returning nothing).
Undefined == 0

\* Object slots: 1 and 2 are created by `new ConcreteBuilder1()`, 3 by `new Builder()`.
ConcreteSlots == {1, 2}
BareSlots == {3}
Objects == ConcreteSlots \cup BareSlots

\* Outcome of a call: normal completion or the exception that propagates.
NoError == "none"
TypeError == "TypeError"
NotImplemented == "Error: method must be implemented"

\* Methods each class body defines.
BuilderMethods == {"buildPartA", "buildPartB", "buildPartC"}
ConcreteBuilder1Methods ==
  {"reset", "producePartA", "producePartB", "producePartC", "getProduct"}

\* The class of each object: the prototype chain its methods are looked up on.
ClassOf(o) == IF o \in ConcreteSlots THEN "ConcreteBuilder1" ELSE "Builder"

VARIABLES
  product,    \* product[o]: this.product of builder o, a heap index or Undefined
  heap,       \* heap[p]: the parts array of the p-th Product1 allocated
  director,   \* director.builder: an object or Undefined
  returned,   \* the products getProduct() has handed to the caller
  calls,      \* calls[o]: steps pushed into o's current product, in call order
  fresh,      \* fresh[o]: o was constructed and neither reset nor retrieved since
  clean,      \* clean[o]: getProduct() ran on o and no part was produced since
  replaced,   \* builders the Director held and setBuilder() replaced
  lastOp,     \* the last operation: name, target, outcome, and the target's history before it
  ops         \* the number of operations the client has performed

vars == <<product, heap, director, returned, calls, fresh, clean, replaced, lastOp, ops>>

\* The mutable program state threaded through a chain of calls, with the
\* pending exception (err) and the value of the last return statement (ret).
State ==
  [heap |-> heap, product |-> product, returned |-> returned, calls |-> calls,
   fresh |-> fresh, clean |-> clean, err |-> NoError, ret |-> Undefined]

\* new Product1(): this.parts = []
Product1(st) == [st EXCEPT !.heap = Append(@, <<>>)]

\* this.product.parts.push(part)
push(st, b, part, step) ==
  [st EXCEPT !.heap[st.product[b]] = Append(@, part),
             !.calls[b] = Append(@, step),
             !.clean[b] = FALSE]

reset_keepParts(st, b) ==
  LET old == IF st.product[b] = Undefined THEN <<>> ELSE st.heap[st.product[b]]
  IN [st EXCEPT !.heap = Append(@, old),
                !.product[b] = Len(st.heap) + 1,
                !.fresh[b] = FALSE]

reset_inPlace(st, b) ==
  IF st.product[b] = Undefined
    THEN [Product1(st) EXCEPT !.product[b] = Len(st.heap) + 1,
                              !.calls[b] = <<>>, !.fresh[b] = FALSE]
    ELSE [st EXCEPT !.heap[st.product[b]] = <<>>,
                    !.calls[b] = <<>>, !.fresh[b] = FALSE]

\* reset(): this.product = new Product1()
reset(st, b) ==
  [Product1(st) EXCEPT !.product[b] = Len(st.heap) + 1,
                       !.calls[b] = <<>>,
                       !.fresh[b] = FALSE]

producePartA(st, b) == push(st, b, "PartA1", "A")

producePartB(st, b) == push(st, b, "PartB1", "B")

producePartC_wrongPart(st, b) == push(st, b, "PartB1", "C")

producePartC(st, b) == push(st, b, "PartC1", "C")

getProduct_noReset(st, b) ==
  [st EXCEPT !.ret = st.product[b],
             !.returned = @ \cup {st.product[b]},
             !.fresh[b] = FALSE,
             !.clean[b] = TRUE]

\* getProduct(): const result = this.product; this.reset(); return result
getProduct(st, b) ==
  LET result == st.product[b]
  IN [reset(st, b) EXCEPT !.ret = result,
                          !.returned = @ \cup {result},
                          !.clean[b] = TRUE]

\* Property lookup along the prototype chain: the class whose body supplies
\* method m for an instance of cls, or "missing" when no class does.
Resolve(cls, m) ==
  IF cls = "ConcreteBuilder1" /\ m \in ConcreteBuilder1Methods THEN "ConcreteBuilder1"
  ELSE IF cls \in {"Builder", "ConcreteBuilder1"} /\ m \in BuilderMethods THEN "Builder"
  ELSE "missing"

\* The statement `b.m()` executed in state st.  A pending exception skips it;
\* reading a property of undefined and calling a missing method are TypeErrors;
\* the Builder bodies throw; the ConcreteBuilder1 bodies run.
Invoke(st, b, m) ==
  IF st.err # NoError THEN st
  ELSE IF b = Undefined THEN [st EXCEPT !.err = TypeError]
  ELSE LET owner == Resolve(ClassOf(b), m) IN
    IF owner = "missing" THEN [st EXCEPT !.err = TypeError]
    ELSE IF owner = "Builder" THEN [st EXCEPT !.err = NotImplemented]
    ELSE CASE m = "reset" -> reset(st, b)
           [] m = "producePartA" -> producePartA(st, b)
           [] m = "producePartB" -> producePartB(st, b)
           [] m = "producePartC" -> producePartC(st, b)
           [] m = "getProduct" -> getProduct(st, b)

buildMinimalViableProduct_twice(st) ==
  Invoke(Invoke(st, director, "producePartA"), director, "producePartA")

\* Director.buildMinimalViableProduct()
buildMinimalViableProduct(st) == Invoke(st, director, "producePartA")

buildFullFeaturedProduct_swapped(st) ==
  Invoke(Invoke(Invoke(st, director, "producePartA"),
                director, "producePartC"),
         director, "producePartB")

buildFullFeaturedProduct_guarded(st) ==
  IF director = Undefined THEN st
  ELSE Invoke(Invoke(Invoke(st, director, "producePartA"),
                     director, "producePartB"),
              director, "producePartC")

\* Director.buildFullFeaturedProduct()
buildFullFeaturedProduct(st) ==
  Invoke(Invoke(Invoke(st, director, "producePartA"),
                director, "producePartB"),
         director, "producePartC")

setBuilder_keepFirst(b) == IF director = Undefined THEN b ELSE director

\* Director.setBuilder(builder): the new value of this.builder
setBuilder(b) == b

\* The client performs one more operation.
Step == ops < MaxOps /\ ops' = ops + 1

Commit(st) ==
  /\ heap' = st.heap
  /\ product' = st.product
  /\ returned' = st.returned
  /\ calls' = st.calls
  /\ fresh' = st.fresh
  /\ clean' = st.clean

\* The record of an operation on target b that ended in state st.
OpRecord(name, b, st) ==
  [op |-> name, b |-> b, err |-> st.err, ret |-> st.ret,
   calls |-> IF b = Undefined THEN <<>> ELSE calls[b],
   fresh |-> IF b = Undefined THEN FALSE ELSE fresh[b],
   clean |-> IF b = Undefined THEN FALSE ELSE clean[b]]

\* The state before any constructor ran.
Empty ==
  [heap |-> <<>>, product |-> [o \in Objects |-> Undefined], returned |-> {},
   calls |-> [o \in Objects |-> <<>>], fresh |-> [o \in Objects |-> FALSE],
   clean |-> [o \in Objects |-> FALSE], err |-> NoError, ret |-> Undefined]

\* ConcreteBuilder1.constructor(): super(); this.reset()
constructor(st, b) == [reset(st, b) EXCEPT !.fresh[b] = TRUE]

\* A ConcreteBuilder1 exists once its constructor has set this.product; the
\* bare Builder has no fields and exists from the start.
Constructed(b) == b \in BareSlots \/ (b \in ConcreteSlots /\ product[b] # Undefined)

\* The module has run `new Director()`; clientCode has not started.
Init ==
  /\ heap = Empty.heap
  /\ product = Empty.product
  /\ returned = Empty.returned
  /\ calls = Empty.calls
  /\ fresh = Empty.fresh
  /\ clean = Empty.clean
  /\ director = Undefined
  /\ ops = 0
  /\ replaced = {}
  /\ lastOp = [op |-> "new Director", b |-> Undefined, err |-> NoError,
               ret |-> Undefined, calls |-> <<>>, fresh |-> FALSE, clean |-> FALSE]

\* The client runs `new ConcreteBuilder1()`; slots are filled in order.
NewConcreteBuilder1(b) ==
  /\ Step
  /\ b \in ConcreteSlots
  /\ product[b] = Undefined
  /\ \A c \in ConcreteSlots : c < b => product[c] # Undefined
  /\ LET st == constructor(State, b) IN
       /\ Commit(st)
       /\ lastOp' = OpRecord("new ConcreteBuilder1", b, st)
  /\ UNCHANGED <<director, replaced>>

\* The client calls b.m().
Call(b, m) ==
  /\ Step
  /\ Constructed(b)
  /\ LET st == Invoke(State, b, m) IN
       /\ Commit(st)
       /\ lastOp' = OpRecord(m, b, st)
  /\ UNCHANGED <<director, replaced>>

Reset(b) == Call(b, "reset")
ProducePartA(b) == Call(b, "producePartA")
ProducePartB(b) == Call(b, "producePartB")
ProducePartC(b) == Call(b, "producePartC")
GetProduct(b) == Call(b, "getProduct")
BuildPartA(b) == Call(b, "buildPartA")
BuildPartB(b) == Call(b, "buildPartB")
BuildPartC(b) == Call(b, "buildPartC")

\* director.setBuilder(b)
SetBuilder(b) ==
  /\ Step
  /\ Constructed(b)
  /\ director' = setBuilder(b)
  /\ replaced' = (replaced \cup (IF director = Undefined THEN {} ELSE {director}))
                   \ {director'}
  /\ lastOp' = OpRecord("setBuilder", b, State)
  /\ UNCHANGED <<product, heap, returned, calls, fresh, clean>>

\* director.buildMinimalViableProduct()
BuildMinimalViableProduct ==
  /\ Step
  /\ LET st == buildMinimalViableProduct(State) IN
       /\ Commit(st)
       /\ lastOp' = OpRecord("buildMinimalViableProduct", director, st)
  /\ UNCHANGED <<director, replaced>>

\* director.buildFullFeaturedProduct()
BuildFullFeaturedProduct ==
  /\ Step
  /\ LET st == buildFullFeaturedProduct(State) IN
       /\ Commit(st)
       /\ lastOp' = OpRecord("buildFullFeaturedProduct", director, st)
  /\ UNCHANGED <<director, replaced>>

\* A client that uses ConcreteBuilder1 through the methods it defines, with
\* or without the Director.
Next ==
  \/ \E b \in ConcreteSlots : NewConcreteBuilder1(b)
  \/ \E b \in ConcreteSlots : Reset(b)
  \/ \E b \in ConcreteSlots : ProducePartA(b)
  \/ \E b \in ConcreteSlots : ProducePartB(b)
  \/ \E b \in ConcreteSlots : ProducePartC(b)
  \/ \E b \in ConcreteSlots : GetProduct(b)
  \/ \E b \in ConcreteSlots : SetBuilder(b)
  \/ BuildMinimalViableProduct
  \/ BuildFullFeaturedProduct

Spec == Init /\ [][Next]_vars

\* A client that also calls the methods the Builder base class declares, calls
\* the step methods on a bare Builder, and hands a bare Builder to the Director.
NextAbstract ==
  \/ \E b \in ConcreteSlots : NewConcreteBuilder1(b)
  \/ \E b \in Objects : ProducePartA(b)
  \/ \E b \in Objects : ProducePartB(b)
  \/ \E b \in Objects : ProducePartC(b)
  \/ \E b \in Objects : BuildPartA(b)
  \/ \E b \in Objects : BuildPartB(b)
  \/ \E b \in Objects : BuildPartC(b)
  \/ \E b \in ConcreteSlots : Reset(b)
  \/ \E b \in ConcreteSlots : GetProduct(b)
  \/ \E b \in Objects : SetBuilder(b)
  \/ BuildMinimalViableProduct
  \/ BuildFullFeaturedProduct

SpecAbstract == Init /\ [][NextAbstract]_vars

TypeOK ==
  /\ \A o \in Objects : product[o] \in 0..Len(heap)
  /\ director \in Objects \cup {Undefined}
  /\ returned \subseteq 1..Len(heap)
  /\ ops \in 0..MaxOps

----------------------------------------------------------------------------
\* The part identifier each step is documented to contribute.
ExpectedPart(step) ==
  CASE step = "A" -> "PartA1"
    [] step = "B" -> "PartB1"
    [] step = "C" -> "PartC1"

ExpectedParts(steps) == [i \in 1..Len(steps) |-> ExpectedPart(steps[i])]

StepMethods == {"producePartA", "producePartB", "producePartC"}
Recipes == {"buildMinimalViableProduct", "buildFullFeaturedProduct"}
FullParts == <<"PartA1", "PartB1", "PartC1">>

\* C1: getProduct() on a builder that has only had producePartA/B/C calls
\* since its construction returns a Product holding exactly one part per
\* call, in call order, 'PartA1' for A, 'PartB1' for B, 'PartC1' for C.
C1_PartsInCallOrder ==
  (lastOp.op = "getProduct" /\ lastOp.b \in ConcreteSlots /\ lastOp.fresh) =>
    /\ lastOp.err = NoError
    /\ lastOp.ret \in 1..Len(heap)
    /\ heap[lastOp.ret] = ExpectedParts(lastOp.calls)

C1_Witness ==
  /\ lastOp.op = "getProduct"
  /\ lastOp.fresh
  /\ lastOp.calls = <<"A", "C", "A">>
  /\ heap[lastOp.ret] = <<"PartA1", "PartC1", "PartA1">>

\* C2: a getProduct() that follows an earlier getProduct() on the same
\* builder with no producePartX call in between returns a Product whose
\* part sequence is empty.
C2_SecondRetrievalEmpty ==
  (lastOp.op = "getProduct" /\ lastOp.b \in ConcreteSlots /\ lastOp.clean) =>
    /\ lastOp.err = NoError
    /\ lastOp.ret \in 1..Len(heap)
    /\ heap[lastOp.ret] = <<>>

C2_Witness ==
  /\ lastOp.op = "getProduct"
  /\ lastOp.clean
  /\ heap[lastOp.ret] = <<>>
  /\ \E p \in returned : heap[p] # <<>>

\* C3: buildFullFeaturedProduct() on a held ConcreteBuilder1 calls
\* producePartA, producePartB, producePartC once each in that order and
\* nothing else (no product is allocated or returned); a getProduct() that
\* follows the recipe run on an empty Product yields PartA1, PartB1, PartC1.
C3_FullRecipe ==
  [][ /\ (BuildFullFeaturedProduct /\ director \in ConcreteSlots) =>
           /\ lastOp'.err = NoError
           /\ heap' = [heap EXCEPT ![product[director]] = @ \o FullParts]
           /\ calls'[director] = calls[director] \o <<"A", "B", "C">>
           /\ product' = product
           /\ returned' = returned
      /\ ( /\ lastOp.op = "buildFullFeaturedProduct"
           /\ lastOp.err = NoError
           /\ lastOp.calls = <<>>
           /\ lastOp.b \in ConcreteSlots
           /\ GetProduct(lastOp.b) ) => heap'[lastOp'.ret] = FullParts
    ]_vars

C3_Witness ==
  /\ lastOp.op = "buildFullFeaturedProduct"
  /\ lastOp.err = NoError
  /\ lastOp.calls = <<>>
  /\ director \in ConcreteSlots
  /\ heap[product[director]] = FullParts

\* C4: buildMinimalViableProduct() on a held ConcreteBuilder1 calls
\* producePartA once and makes no other call; a getProduct() that follows
\* the recipe run on an empty Product yields exactly PartA1.
C4_MinimalRecipe ==
  [][ /\ (BuildMinimalViableProduct /\ director \in ConcreteSlots) =>
           /\ lastOp'.err = NoError
           /\ heap' = [heap EXCEPT ![product[director]] = Append(@, "PartA1")]
           /\ calls'[director] = Append(calls[director], "A")
           /\ product' = product
           /\ returned' = returned
      /\ ( /\ lastOp.op = "buildMinimalViableProduct"
           /\ lastOp.err = NoError
           /\ lastOp.calls = <<>>
           /\ lastOp.b \in ConcreteSlots
           /\ GetProduct(lastOp.b) ) => heap'[lastOp'.ret] = <<"PartA1">>
    ]_vars

C4_Witness ==
  /\ lastOp.op = "buildMinimalViableProduct"
  /\ lastOp.err = NoError
  /\ lastOp.calls = <<>>
  /\ director \in ConcreteSlots
  /\ heap[product[director]] = <<"PartA1">>

\* C5: setBuilder(b) makes b the held builder, and a recipe call appends
\* parts only to the held builder's current Product: every other builder
\* keeps its Product instance and that instance's part sequence.
C5_SwapLeavesOldBuilder ==
  [][ /\ lastOp'.op = "setBuilder" => director' = lastOp'.b
      /\ ((BuildMinimalViableProduct \/ BuildFullFeaturedProduct)
             /\ director \in ConcreteSlots) =>
           /\ product' = product
           /\ Len(heap') = Len(heap)
           /\ Len(heap'[product[director]]) > Len(heap[product[director]])
           /\ \A p \in 1..Len(heap) :
                p # product[director] => heap'[p] = heap[p]
    ]_vars

C5_Witness ==
  /\ replaced = {1}
  /\ director = 2
  /\ lastOp.op \in Recipes
  /\ lastOp.b = 2
  /\ lastOp.err = NoError
  /\ heap[product[1]] # <<>>
  /\ heap[product[2]] # <<>>

\* C6: the Product a builder holds is never one getProduct() has returned;
\* no operation changes the parts of a returned Product; two consecutive
\* retrievals from a builder return two distinct instances.
C6_OwnershipTransfer ==
  /\ [](\A b \in ConcreteSlots : product[b] \notin returned)
  /\ [][ /\ \A p \in returned : p \in 1..Len(heap') /\ heap'[p] = heap[p]
         /\ ( /\ lastOp.op = "getProduct"
              /\ lastOp'.op = "getProduct"
              /\ lastOp'.b = lastOp.b ) => lastOp'.ret # lastOp.ret
       ]_vars

C6_Witness ==
  /\ lastOp.op \in StepMethods
  /\ lastOp.err = NoError
  /\ lastOp.clean
  /\ heap[product[lastOp.b]] # <<>>
  /\ Cardinality(returned) >= 2
  /\ \E p \in returned : heap[p] # <<>>

\* C7: a recipe called on a Director whose builder was never set fails with
\* the TypeError of reading a property of undefined, and changes nothing:
\* the Director still has no builder and no Product is modified.
C7_RecipeWithoutBuilder ==
  [][ ((BuildMinimalViableProduct \/ BuildFullFeaturedProduct)
         /\ director = Undefined) =>
        /\ lastOp'.err = TypeError
        /\ director' = Undefined
        /\ UNCHANGED <<heap, product, returned, calls>>
    ]_vars

C7_Witness ==
  /\ lastOp.op \in Recipes
  /\ lastOp.b = Undefined
  /\ lastOp.err = TypeError
  /\ director = Undefined
  /\ replaced = {}
  /\ product[1] # Undefined
  /\ heap[product[1]] # <<>>

\* C8: producePartA/B/C called on a bare Builder fails with the
\* 'method must be implemented' error.
C8_BareStepNotImplemented ==
  (lastOp.b \in BareSlots /\ lastOp.op \in StepMethods) =>
    lastOp.err = NotImplemented

\* C9: no operation the Builder base class declares raises the
\* 'method must be implemented' error when called on a ConcreteBuilder1.
C9_ConcreteImplementsBuilder ==
  (lastOp.b \in ConcreteSlots /\ lastOp.op \in BuilderMethods) =>
    lastOp.err # NotImplemented

\* C10: reset() succeeds in any state and leaves the builder holding a new
\* Product with no parts, whatever it held before (so a second reset leaves
\* the same content); every Product that existed, returned or not, keeps
\* its parts.
C10_Reset ==
  [][ \A b \in ConcreteSlots :
        /\ Reset(b) =>
             /\ lastOp'.err = NoError
             /\ product'[b] \notin 1..Len(heap)
             /\ product'[b] \in 1..Len(heap')
             /\ heap'[product'[b]] = <<>>
             /\ \A p \in 1..Len(heap) : heap'[p] = heap[p]
             /\ returned' = returned
             /\ \A c \in ConcreteSlots \ {b} : product'[c] = product[c]
        /\ (lastOp.op = "reset" /\ lastOp.b = b /\ Reset(b)) =>
             heap'[product'[b]] = heap[product[b]]
    ]_vars

C10_Witness ==
  /\ lastOp.op = "reset"
  /\ lastOp.err = NoError
  /\ lastOp.calls # <<>>
  /\ returned # {}
  /\ heap[product[lastOp.b]] = <<>>
====
